---------------------------- MODULE Spec2Model ----------------------------
(***************************************************************************)
(* Model of multi_tool_agent/arxiv_agent.py: the arXiv identifier          *)
(* extractor, the keyword-overlap scorer and the three tool operations     *)
(* search_arxiv_papers, summarize_arxiv_paper and answer_paper_question.   *)
(*                                                                         *)
(* Texts are sequences of pieces.  Identifiers, questions and abstracts    *)
(* are sequences of one-character strings, so that the regular             *)
(* expressions, lower() and the substring test work on characters; fixed   *)
(* messages are one-piece sequences.  Python's None is the empty option    *)
(* <<>> and a value x is the option <<x>>.                                 *)
(***************************************************************************)
EXTENDS Integers, Sequences, FiniteSets, TLC

VARIABLES
    pc,          \* position of the running invocation
    op,          \* the operation invoked
    id_or_url,   \* argument arxiv_id_or_url (or query, for search)
    question,    \* argument question of answer_paper_question
    arxiv_id,    \* local arxiv_id: option of a text
    trace,       \* which return statement of _extract_arxiv_id was taken
    papers_list, \* local papers_list of search_arxiv_papers
    calls,       \* number of search.results() requests of this invocation
    failure,     \* option: the exception the client raised in this invocation
    fetched,     \* option: the result object the client returned
    score,       \* locals question_words / found_keywords of the scorer
    returned,    \* envelopes returned by this invocation, in order
    escaped      \* exceptions that left the operation uncaught

vars == <<pc, op, id_or_url, question, arxiv_id, trace, papers_list, calls,
          failure, fetched, score, returned, escaped>>

-----------------------------------------------------------------------------
(* Characters *)

LowerChars == <<"a","b","c","d","e","f","g","h","i","j","k","l","m",
                "n","o","p","q","r","s","t","u","v","w","x","y","z">>
UpperChars == <<"A","B","C","D","E","F","G","H","I","J","K","L","M",
                "N","O","P","Q","R","S","T","U","V","W","X","Y","Z">>
DigitChars == <<"0","1","2","3","4","5","6","7","8","9">>

Range(f) == { f[i] : i \in DOMAIN f }

Digit == Range(DigitChars)
Letter == Range(LowerChars) \cup Range(UpperChars)
UpperCase == Range(UpperChars)

\* \d
IsDigit(c) == c \in Digit
\* [a-zA-Z]
IsLetter(c) == c \in Letter
\* [a-zA-Z.-]
IsCategoryChar(c) == IsLetter(c) \/ c \in {".", "-"}
\* \w (so \W is its complement)
IsWordChar(c) == IsLetter(c) \/ IsDigit(c) \/ c = "_"

\* str.lower() on one character
LowerChar(c) ==
    IF c \in UpperCase
    THEN LowerChars[CHOOSE i \in DOMAIN UpperChars : UpperChars[i] = c]
    ELSE c
\* str.lower()
Lower(s) == [i \in DOMAIN s |-> LowerChar(s[i])]

None == <<>>
Some(x) == <<x>>

-----------------------------------------------------------------------------
(* The two regular expressions of _extract_arxiv_id.  A matcher XAt(s, i)  *)
(* gives the index just after the match of X that starts at index i, or 0  *)
(* when X does not match there.  Greedy quantifiers take the longest       *)
(* repetition for which the rest of the pattern still matches.             *)

YearMonthDigits == 4
MinNumberDigits == 4
MaxNumberDigits == 5
LegacyDigits == 7
StrictVersionDigits == 1

\* \d{n} at index i
DigitsAt(s, i, n) ==
    /\ i + n - 1 <= Len(s)
    /\ \A j \in i..(i + n - 1) : IsDigit(s[j])

\* length of the longest run of \d starting at index i
DigitRun(s, i) ==
    CHOOSE n \in 0..(Len(s) - i + 1) :
        /\ \A j \in i..(i + n - 1) : IsDigit(s[j])
        /\ (i + n <= Len(s) => ~IsDigit(s[i + n]))

\* length of the longest run of [a-zA-Z.-] starting at index i
CategoryRun(s, i) ==
    CHOOSE n \in 0..(Len(s) - i + 1) :
        /\ \A j \in i..(i + n - 1) : IsCategoryChar(s[j])
        /\ (i + n <= Len(s) => ~IsCategoryChar(s[i + n]))

\* (v\d+)? at index i, last in its pattern: never fails
BroadVersionAt(s, i) ==
    IF i <= Len(s) /\ s[i] = "v" /\ DigitRun(s, i + 1) >= 1
    THEN i + 1 + DigitRun(s, i + 1)
    ELSE i

\* (v\d)? at index i, last in its pattern: never fails
StrictVersionAt(s, i) ==
    IF i <= Len(s) /\ s[i] = "v" /\ DigitsAt(s, i + 1, StrictVersionDigits)
    THEN i + 1 + StrictVersionDigits
    ELSE i

\* \d{4}\.\d{4,5} at index i
NumberAt(s, i) ==
    IF /\ DigitsAt(s, i, YearMonthDigits)
       /\ i + YearMonthDigits <= Len(s)
       /\ s[i + YearMonthDigits] = "."
       /\ DigitsAt(s, i + YearMonthDigits + 1, MinNumberDigits)
    THEN LET k == CHOOSE n \in MinNumberDigits..MaxNumberDigits :
                      /\ DigitsAt(s, i + YearMonthDigits + 1, n)
                      /\ \A m \in (n + 1)..MaxNumberDigits :
                             ~DigitsAt(s, i + YearMonthDigits + 1, m)
         IN  i + YearMonthDigits + 1 + k
    ELSE 0

\* [a-zA-Z.-]+/\d{7} at index i
LegacyAt(s, i) ==
    LET ks == { k \in 1..CategoryRun(s, i) :
                  /\ i + k <= Len(s)
                  /\ s[i + k] = "/"
                  /\ DigitsAt(s, i + k + 1, LegacyDigits) }
    IN  IF ks = {} THEN 0
        ELSE (CHOOSE k \in ks : \A m \in ks : m <= k) + i + 1 + LegacyDigits

\* (\d{4}\.\d{4,5}(v\d+)?|[a-zA-Z.-]+/\d{7}(v\d+)?) at index i
BroadAt(s, i) ==
    IF NumberAt(s, i) # 0 THEN BroadVersionAt(s, NumberAt(s, i))
    ELSE IF LegacyAt(s, i) # 0 THEN BroadVersionAt(s, LegacyAt(s, i))
    ELSE 0

\* [a-zA-Z.-]*\d{4}\.\d{4,5} at index i
PrefixedNumberAt(s, i) ==
    LET ks == { k \in 0..CategoryRun(s, i) : NumberAt(s, i + k) # 0 }
    IN  IF ks = {} THEN 0
        ELSE NumberAt(s, i + (CHOOSE k \in ks : \A m \in ks : m <= k))

\* variant of StrictAt: the second alternative of the strict pattern is lost
StrictAtNumberOnly(s, i) ==
    IF PrefixedNumberAt(s, i) # 0
    THEN StrictVersionAt(s, PrefixedNumberAt(s, i))
    ELSE 0

\* ([a-zA-Z.-]*\d{4}\.\d{4,5}(v\d)?|[a-zA-Z.-]+/\d{7}(v\d)?) at index i
StrictAt(s, i) ==
    IF PrefixedNumberAt(s, i) # 0
    THEN StrictVersionAt(s, PrefixedNumberAt(s, i))
    ELSE IF LegacyAt(s, i) # 0 THEN StrictVersionAt(s, LegacyAt(s, i))
    ELSE 0

\* re.search(broad, s): option of [start, stop), leftmost match
BroadSearch(s) ==
    LET is == { i \in 1..Len(s) : BroadAt(s, i) # 0 }
    IN  IF is = {} THEN None
        ELSE LET i == CHOOSE i \in is : \A j \in is : i <= j
             IN  Some([start |-> i, stop |-> BroadAt(s, i)])

\* re.search(strict, s): option of [start, stop), leftmost match
StrictSearch(s) ==
    LET is == { i \in 1..Len(s) : StrictAt(s, i) # 0 }
    IN  IF is = {} THEN None
        ELSE LET i == CHOOSE i \in is : \A j \in is : i <= j
             IN  Some([start |-> i, stop |-> StrictAt(s, i)])

\* match.group(0)
Group0(s, m) == SubSeq(s, m.start, m.stop - 1)

\* variant of ExtractTrace: the strict pattern is searched in the whole
\* argument instead of in match.group(0)
ExtractTraceWholeInput(s) ==
    LET match == BroadSearch(s) IN
    IF match # None
    THEN LET broad == Group0(s, match[1])
             core_id_match == StrictSearch(s)
         IN  IF core_id_match # None
             THEN [path |-> "core", broad |-> broad,
                   core_start |-> core_id_match[1].start,
                   value |-> Some(Group0(s, core_id_match[1]))]
             ELSE [path |-> "fallback", broad |-> broad, core_start |-> 0,
                   value |-> Some(broad)]
    ELSE [path |-> "none", broad |-> <<>>, core_start |-> 0, value |-> None]

\* the body of _extract_arxiv_id, keeping which return was taken
ExtractTrace(s) ==
    LET match == BroadSearch(s) IN
    IF match # None
    THEN LET broad == Group0(s, match[1])
             core_id_match == StrictSearch(broad)
         IN  IF core_id_match # None
             THEN [path |-> "core", broad |-> broad,
                   core_start |-> core_id_match[1].start,
                   value |-> Some(Group0(broad, core_id_match[1]))]
             ELSE [path |-> "fallback", broad |-> broad, core_start |-> 0,
                   value |-> Some(broad)]
    ELSE [path |-> "none", broad |-> <<>>, core_start |-> 0, value |-> None]

extract_arxiv_id(s) == ExtractTrace(s).value

-----------------------------------------------------------------------------
(* The keyword-overlap scorer of answer_paper_question *)

STOP_WORDS ==
    { <<"a">>, <<"a","n">>, <<"t","h","e">>, <<"i","s">>, <<"a","r","e">>,
      <<"w","a","s">>, <<"w","e","r","e">>, <<"b","e">>,
      <<"b","e","e","n">>, <<"b","e","i","n","g">>, <<"h","a","v","e">>,
      <<"h","a","s">>, <<"h","a","d">>, <<"d","o">>, <<"d","o","e","s">>,
      <<"d","i","d">>, <<"w","i","l","l">>, <<"w","o","u","l","d">>,
      <<"s","h","o","u","l","d">>, <<"c","a","n">>,
      <<"c","o","u","l","d">>, <<"m","a","y">>, <<"m","i","g","h","t">>,
      <<"m","u","s","t">>, <<"a","n","d">>, <<"b","u","t">>, <<"o","r">>,
      <<"n","o","r">>, <<"f","o","r">>, <<"s","o">>, <<"y","e","t">>,
      <<"i","n">>, <<"o","n">>, <<"a","t">>, <<"b","y">>,
      <<"f","r","o","m">>, <<"t","o">>, <<"w","i","t","h">>,
      <<"a","b","o","u","t">>, <<"a","b","o","v","e">>,
      <<"a","f","t","e","r">>, <<"a","g","a","i","n">>,
      <<"a","g","a","i","n","s","t">>, <<"a","l","l">>, <<"a","m">>,
      <<"a","s">>, <<"b","e","c","a","u","s","e">>,
      <<"b","e","f","o","r","e">>, <<"b","e","l","o","w">>,
      <<"b","e","t","w","e","e","n">>, <<"b","o","t","h">>,
      <<"d","u","r","i","n","g">>, <<"e","a","c","h">>, <<"f","e","w">>,
      <<"f","u","r","t","h","e","r">>, <<"h","e","r","e">>,
      <<"h","o","w">>, <<"i">>, <<"i","f">>, <<"i","n","t","o">>,
      <<"i","t">>, <<"i","t","s">>, <<"i","t","s","e","l","f">>,
      <<"j","u","s","t">>, <<"m","e">>, <<"m","o","r","e">>,
      <<"m","o","s","t">>, <<"m","y">>, <<"m","y","s","e","l","f">>,
      <<"n","o">>, <<"n","o","t">>, <<"n","o","w">>, <<"o","f">>,
      <<"o","f","f">>, <<"o","n","c","e">>, <<"o","n","l","y">>,
      <<"o","t","h","e","r">>, <<"o","u","r">>, <<"o","u","r","s">>,
      <<"o","u","r","s","e","l","v","e","s">>, <<"o","u","t">>,
      <<"o","v","e","r">>, <<"o","w","n">>, <<"s","a","m","e">>,
      <<"s","h","e">>, <<"h","e">>, <<"t","h","e","y">>,
      <<"t","h","e","m">>, <<"t","h","e","i","r">>,
      <<"t","h","e","i","r","s">>,
      <<"t","h","e","m","s","e","l","v","e","s">>, <<"t","h","e","n">>,
      <<"t","h","e","r","e">>, <<"t","h","e","s","e">>,
      <<"t","h","i","s">>, <<"t","h","o","s","e">>,
      <<"t","h","r","o","u","g","h">>, <<"t","o","o">>,
      <<"u","n","d","e","r">>, <<"u","n","t","i","l">>, <<"u","p">>,
      <<"v","e","r","y">>, <<"w","e">>, <<"w","h","a","t">>,
      <<"w","h","e","n">>, <<"w","h","e","r","e">>,
      <<"w","h","i","c","h">>, <<"w","h","i","l","e">>, <<"w","h","o">>,
      <<"w","h","o","m">>, <<"w","h","y">>, <<"y","o","u">>,
      <<"y","o","u","r">>, <<"y","o","u","r","s">>,
      <<"y","o","u","r","s","e","l","f">>,
      <<"y","o","u","r","s","e","l","v","e","s">> }

\* index just after the run of \W that starts at index i
SkipNonWord(s, i) ==
    CHOOSE j \in i..(Len(s) + 1) :
        /\ \A k \in i..(j - 1) : ~IsWordChar(s[k])
        /\ (j <= Len(s) => IsWordChar(s[j]))

RECURSIVE SplitFrom(_, _, _, _)
\* re.split(r"\W+", s) from index i on; cur is the piece being read
SplitFrom(s, i, cur, acc) ==
    IF i > Len(s) THEN Append(acc, cur)
    ELSE IF IsWordChar(s[i]) THEN SplitFrom(s, i + 1, Append(cur, s[i]), acc)
    ELSE SplitFrom(s, SkipNonWord(s, i), <<>>, Append(acc, cur))

\* re.split(r"\W+", s)
Split(s) == SplitFrom(s, 1, <<>>, <<>>)

\* the filter "if word and word not in STOP_WORDS"
Significant(word) == word # <<>> /\ word \notin STOP_WORDS

\* question_words
QuestionWords(q) == SelectSeq(Split(Lower(q)), Significant)

\* word in text (substring containment; the empty word is in every text)
Contains(word, text) ==
    \E i \in 1..(Len(text) - Len(word) + 1) :
        SubSeq(text, i, i + Len(word) - 1) = word

\* found_keywords after the loop over question_words
FoundKeywords(words, abstract) ==
    Cardinality({ i \in DOMAIN words : Contains(words[i], Lower(abstract)) })

\* variant of MoreThanHalf: ">=" for ">"
AtLeastHalf(found, total) == 2 * found >= total

\* found_keywords > len(question_words) / 2, a true division: both sides
\* are compared in halves, which is exact
MoreThanHalf(found, total) == 2 * found > total

NotEnoughMsg == <<"Your question did not contain enough significant keywords after removing common words. Please try a more specific question.">>
FoundMsg == <<"The abstract may contain information relevant to your question. Please review it.">>
NotFoundMsg == <<"I could not find specific information for your question in the paper's abstract.">>

AnswerEnvelope(type, msg, abstract, title) ==
    [status |-> "success", answer_type |-> type, message |-> msg,
     abstract |-> abstract, title |-> title]

\* the part of answer_paper_question that follows the fetch of paper
ScoreEnvelope(paper, q) ==
    LET abstract == paper.summary
        title == paper.title
        question_words == QuestionWords(q)
        found_keywords == FoundKeywords(question_words, abstract)
    IN  IF question_words = <<>>
        THEN AnswerEnvelope("not_enough_keywords", NotEnoughMsg, abstract, title)
        ELSE IF MoreThanHalf(found_keywords, Len(question_words))
        THEN AnswerEnvelope("found_in_abstract", FoundMsg, abstract, title)
        ELSE AnswerEnvelope("not_found_in_abstract", NotFoundMsg, abstract, title)

-----------------------------------------------------------------------------
(* Envelopes, records and the except clauses *)

InvalidIdMsg == <<"Invalid arXiv ID or URL format.">>
NoPapersMsg == <<"No papers found matching your query.">>
PaperNotFoundMsg == <<"Paper not found or invalid ID.">>

\* variant of IdNotFoundMsg: the message of summarize_arxiv_paper, without
\* the identifier
IdNotFoundMsgGeneric(id) == PaperNotFoundMsg

\* f"Paper with ID '{arxiv_id}' not found."
IdNotFoundMsg(id) == <<"Paper with ID '">> \o id \o <<"' not found.">>

ErrorEnvelope(msg) == [status |-> "error", message |-> msg]

\* s.split("/")[-1]
LastSegment(s) ==
    LET cuts == { i \in 1..Len(s) : s[i] = "/" }
    IN  IF cuts = {} THEN s
        ELSE SubSeq(s, (CHOOSE i \in cuts : \A j \in cuts : j <= i) + 1, Len(s))

\* published.strftime("%Y-%m-%d")
FormatDate(d) == <<d.year, "-", d.month, "-", d.day>>

\* the dict paper_details built from a client result
PaperDetails(r) ==
    [title |-> r.title,
     authors |-> [i \in DOMAIN r.authors |-> r.authors[i].name],
     published_date |-> FormatDate(r.published),
     summary |-> r.summary,
     arxiv_id |-> LastSegment(r.entry_id),
     primary_category |-> r.primary_category,
     pdf_link |-> r.pdf_url]

\* str(e) of an exception built with no argument or with one message
Str(e) == IF e.args = <<>> THEN <<>> ELSE e.args[1]

\* the classes that "except Exception" catches
ExceptionClasses ==
    {"Exception", "ArxivError", "HTTPError", "UnexpectedEmptyPageError",
     "ConnectionError", "Timeout"}

\* variant of Caught: "except arxiv.ArxivError" for "except Exception"
CaughtArxivOnly(e) ==
    e.type \in {"ArxivError", "HTTPError", "UnexpectedEmptyPageError"}

\* isinstance(e, Exception)
Caught(e) == e.type \in ExceptionClasses

\* except Exception as e: return {"status": "error", "message": str(e)}
SearchExcept(e) == ErrorEnvelope(Str(e))

\* f"An error occurred: {str(e)}"
ErrorOccurredMsg(e) == <<"An error occurred: ">> \o Str(e)

\* variant of SummarizeExcept: the except clause of answer_paper_question
SummarizeExceptPrefixed(e) == ErrorEnvelope(ErrorOccurredMsg(e))

\* except Exception as e: return {"status": "error", "message": str(e)}
SummarizeExcept(e) == ErrorEnvelope(Str(e))

\* except Exception as e:
\*     return {"status": "error", "message": f"An error occurred: {str(e)}"}
AnswerExcept(e) == ErrorEnvelope(ErrorOccurredMsg(e))

-----------------------------------------------------------------------------
(* Inputs: the arguments of the operations and the client's answers *)

MaxPad == 2
MaxVersionDigits == 2
MaxWords == 3
MaxAbstract == 2
MaxResults == 2

\* a run of n digits, no two neighbours alike
Digits(n) == [i \in 1..n |-> DigitChars[((3 * i) % 10) + 1]]

\* all texts of at most n characters of alphabet
Texts(alphabet, n) == UNION { [1..k -> alphabet] : k \in 0..n }

PadAlphabet == {"1", "a", ".", "/", ":"}

\* what surrounds an identifier: a text before it and a text after it
PadPairs ==
    { p \in Texts(PadAlphabet, MaxPad) \X Texts(PadAlphabet, MaxPad) :
        Len(p[1]) + Len(p[2]) <= MaxPad }

\* well-formed and malformed identifier bodies of both shapes
Cores ==
    { Digits(a) \o <<".">> \o Digits(b) : a \in 3..4, b \in 3..6 }
    \cup { c \o <<"/">> \o Digits(b) :
             c \in {<<"a">>, <<"h", "-", "t">>}, b \in 6..8 }

Versions == {<<>>} \cup { <<"v">> \o Digits(k) : k \in 0..MaxVersionDigits }

\* the arguments given to _extract_arxiv_id
IdInputs ==
    { p[1] \o c \o v \o p[2] : p \in PadPairs, c \in Cores, v \in Versions }
    \cup Texts(PadAlphabet, MaxPad)

\* the words a question is made of: keywords, stop words, punctuation
Words ==
    { <<"x">>, <<"y">>, <<"Z">>, <<"a", "n">>, <<"T", "h", "e">>, <<"?">> }

RECURSIVE Join(_)
\* the words of ws with a blank between neighbours
Join(ws) ==
    IF ws = <<>> THEN <<>>
    ELSE IF Len(ws) = 1 THEN ws[1]
    ELSE ws[1] \o <<" ">> \o Join(Tail(ws))

\* the questions of at most n words
Questions(n) == { Join(ws) : ws \in Texts(Words, n) }

AbstractAlphabet == {"x", "Y", "z"}
Abstracts == Texts(AbstractAlphabet, MaxAbstract)

ModernId == Digits(4) \o <<".">> \o Digits(5)
LegacyId == <<"h", "-", "t", "/">> \o Digits(7)

\* a result object of the client
Result(title, summary, id) ==
    [title |-> title,
     authors |-> <<[name |-> "A. Author"], [name |-> "B. Author"]>>,
     published |-> [year |-> "2023", month |-> "03", day |-> "17"],
     summary |-> summary,
     entry_id |-> <<"h", ":", "/", "/", "x", "/", "a", "/">> \o id,
     primary_category |-> "cs.CL",
     pdf_url |-> <<"h", ":", "/", "/", "x", "/", "p", "/">> \o id]

\* arguments arxiv_id_or_url of the operations
OpIds ==
    { ModernId,
      ModernId \o <<"v">> \o Digits(2),
      <<"x", "/", "a", "/">> \o ModernId \o <<"v", "7">>,
      LegacyId,
      <<"n", "o", " ", "i", "d">>,
      <<>> }

\* arguments query of search_arxiv_papers
Queries == { <<"x">>, <<>> }

\* what the client may yield
OpResults ==
    { Result(<<"T", "1">>, <<"x", " ", "Y">>, ModernId \o <<"v", "1">>),
      Result(<<"T", "2">>, <<>>, LegacyId) }

\* the results the scorer is run on: one per abstract
AnswerResults == { Result(<<"T">>, a, ModernId) : a \in Abstracts }

\* the exceptions the client raises
ClientErrors ==
    { [type |-> "HTTPError", args |-> << <<"HTTP 503">> >>],
      [type |-> "ConnectionError", args |-> << <<"Connection refused">> >>],
      [type |-> "UnexpectedEmptyPageError", args |-> <<>>] }

-----------------------------------------------------------------------------
(* The operations.  An invocation runs from its call to the point where it *)
(* waits for the client, and from the client's answer to its return.       *)

NoTrace == [path |-> "unset", broad |-> <<>>, core_start |-> 0, value |-> None]

Init ==
    /\ pc = "idle"
    /\ op = "none"
    /\ id_or_url = <<>>
    /\ question = <<>>
    /\ arxiv_id = None
    /\ trace = NoTrace
    /\ papers_list = <<>>
    /\ calls = 0
    /\ failure = None
    /\ fetched = <<>>
    /\ score = None
    /\ returned = <<>>
    /\ escaped = <<>>

\* "not arxiv_id": None or the empty string
Falsy(id) == id = None \/ id[1] = <<>>

\* an exception e raised inside the try block whose except clause returns env
Raise(e, env) ==
    /\ failure' = Some(e)
    /\ IF Caught(e)
       THEN returned' = Append(returned, env) /\ escaped' = escaped
       ELSE returned' = returned /\ escaped' = Append(escaped, e)
    /\ pc' = "done"

\* variant of SearchEnvelope: an empty result is reported as an error
SearchEnvelopeEmptyIsError(papers) ==
    IF papers = <<>>
    THEN ErrorEnvelope(NoPapersMsg)
    ELSE [status |-> "success", papers |-> papers]

\* the return statement that ends the loop of search_arxiv_papers
SearchEnvelope(papers) ==
    IF papers = <<>>
    THEN [status |-> "success", papers |-> <<>>, message |-> NoPapersMsg]
    ELSE [status |-> "success", papers |-> papers]

\* search_arxiv_papers(query) up to the first request of search.results()
SearchCall(query) ==
    /\ pc = "idle"
    /\ op' = "search"
    /\ id_or_url' = query
    /\ papers_list' = <<>>
    /\ calls' = calls + 1
    /\ pc' = "search_iter"
    /\ UNCHANGED <<question, arxiv_id, trace, failure, fetched, score,
                   returned, escaped>>

\* the client yields result r: one turn of the for loop
SearchYield(r) ==
    /\ pc = "search_iter"
    /\ Len(fetched) < MaxResults
    /\ fetched' = Append(fetched, r)
    /\ papers_list' = Append(papers_list, PaperDetails(r))
    /\ UNCHANGED <<pc, op, id_or_url, question, arxiv_id, trace, calls,
                   failure, score, returned, escaped>>

\* the client's iterator is exhausted: the code after the loop
SearchExhausted ==
    /\ pc = "search_iter"
    /\ returned' = Append(returned, SearchEnvelope(papers_list))
    /\ pc' = "done"
    /\ UNCHANGED <<op, id_or_url, question, arxiv_id, trace, papers_list,
                   calls, failure, fetched, score, escaped>>

\* variant of SearchRaise: the query is issued once more after a failure
SearchRaiseRetry(e) ==
    /\ pc = "search_iter"
    /\ IF calls < 2
       THEN /\ failure' = Some(e)
            /\ calls' = calls + 1
            /\ UNCHANGED <<pc, returned, escaped>>
       ELSE Raise(e, SearchExcept(e)) /\ calls' = calls
    /\ UNCHANGED <<op, id_or_url, question, arxiv_id, trace, papers_list,
                   fetched, score>>

\* the client raises e while the loop asks for the next result
SearchRaise(e) ==
    /\ pc = "search_iter"
    /\ Raise(e, SearchExcept(e))
    /\ UNCHANGED <<op, id_or_url, question, arxiv_id, trace, papers_list,
                   calls, fetched, score>>

\* variant of SummarizeCall: the client is asked before the identifier is
\* looked at
SummarizeCallFetchFirst(s) ==
    /\ pc = "idle"
    /\ op' = "summarize"
    /\ id_or_url' = s
    /\ trace' = ExtractTrace(s)
    /\ arxiv_id' = extract_arxiv_id(s)
    /\ calls' = calls + 1
    /\ IF Falsy(arxiv_id')
       THEN /\ returned' = Append(returned, ErrorEnvelope(InvalidIdMsg))
            /\ pc' = "done"
       ELSE /\ returned' = returned
            /\ pc' = "fetch"
    /\ UNCHANGED <<question, papers_list, failure, fetched, score, escaped>>

\* summarize_arxiv_paper(arxiv_id_or_url) up to next(search.results(), None)
SummarizeCall(s) ==
    /\ pc = "idle"
    /\ op' = "summarize"
    /\ id_or_url' = s
    /\ trace' = ExtractTrace(s)
    /\ arxiv_id' = extract_arxiv_id(s)
    /\ IF Falsy(arxiv_id')
       THEN /\ returned' = Append(returned, ErrorEnvelope(InvalidIdMsg))
            /\ calls' = calls
            /\ pc' = "done"
       ELSE /\ returned' = returned
            /\ calls' = calls + 1
            /\ pc' = "fetch"
    /\ UNCHANGED <<question, papers_list, failure, fetched, score, escaped>>

\* the client returns paper r
SummarizeFound(r) ==
    /\ pc = "fetch" /\ op = "summarize"
    /\ fetched' = Append(fetched, r)
    /\ returned' = Append(returned,
                          [status |-> "success", paper |-> PaperDetails(r)])
    /\ pc' = "done"
    /\ UNCHANGED <<op, id_or_url, question, arxiv_id, trace, papers_list,
                   calls, failure, score, escaped>>

\* the client has no paper: next(...) gives None
SummarizeNotFound ==
    /\ pc = "fetch" /\ op = "summarize"
    /\ returned' = Append(returned, ErrorEnvelope(PaperNotFoundMsg))
    /\ pc' = "done"
    /\ UNCHANGED <<op, id_or_url, question, arxiv_id, trace, papers_list,
                   calls, failure, fetched, score, escaped>>

\* the client raises e
SummarizeRaise(e) ==
    /\ pc = "fetch" /\ op = "summarize"
    /\ Raise(e, SummarizeExcept(e))
    /\ UNCHANGED <<op, id_or_url, question, arxiv_id, trace, papers_list,
                   calls, fetched, score>>

\* answer_paper_question(arxiv_id_or_url, question) up to
\* next(search.results(), None)
AnswerCall(s, q) ==
    /\ pc = "idle"
    /\ op' = "answer"
    /\ id_or_url' = s
    /\ question' = q
    /\ trace' = ExtractTrace(s)
    /\ arxiv_id' = extract_arxiv_id(s)
    /\ IF Falsy(arxiv_id')
       THEN /\ returned' = Append(returned, ErrorEnvelope(InvalidIdMsg))
            /\ calls' = calls
            /\ pc' = "done"
       ELSE /\ returned' = returned
            /\ calls' = calls + 1
            /\ pc' = "fetch"
    /\ UNCHANGED <<papers_list, failure, fetched, score, escaped>>

\* the client returns paper r: the scorer runs and the operation returns
AnswerFound(r) ==
    /\ pc = "fetch" /\ op = "answer"
    /\ fetched' = Append(fetched, r)
    /\ score' = Some([question_words |-> QuestionWords(question),
                      found_keywords |->
                          FoundKeywords(QuestionWords(question), r.summary)])
    /\ returned' = Append(returned, ScoreEnvelope(r, question))
    /\ pc' = "done"
    /\ UNCHANGED <<op, id_or_url, question, arxiv_id, trace, papers_list,
                   calls, failure, escaped>>

\* the client has no paper: next(...) gives None
AnswerNotFound ==
    /\ pc = "fetch" /\ op = "answer"
    /\ returned' = Append(returned, ErrorEnvelope(IdNotFoundMsg(arxiv_id[1])))
    /\ pc' = "done"
    /\ UNCHANGED <<op, id_or_url, question, arxiv_id, trace, papers_list,
                   calls, failure, fetched, score, escaped>>

\* the client raises e
AnswerRaise(e) ==
    /\ pc = "fetch" /\ op = "answer"
    /\ Raise(e, AnswerExcept(e))
    /\ UNCHANGED <<op, id_or_url, question, arxiv_id, trace, papers_list,
                   calls, fetched, score>>

\* the caller has the envelope; nothing of the invocation is kept
Return ==
    /\ pc = "done"
    /\ pc' = "idle"
    /\ op' = "none"
    /\ id_or_url' = <<>>
    /\ question' = <<>>
    /\ arxiv_id' = None
    /\ trace' = NoTrace
    /\ papers_list' = <<>>
    /\ calls' = 0
    /\ failure' = None
    /\ fetched' = <<>>
    /\ score' = None
    /\ returned' = <<>>
    /\ escaped' = <<>>

Next ==
    \/ \E query \in Queries : SearchCall(query)
    \/ \E r \in OpResults : SearchYield(r)
    \/ SearchExhausted
    \/ \E e \in ClientErrors : SearchRaise(e)
    \/ \E s \in OpIds : SummarizeCall(s)
    \/ \E r \in OpResults : SummarizeFound(r)
    \/ SummarizeNotFound
    \/ \E e \in ClientErrors : SummarizeRaise(e)
    \/ pc = "idle" /\ \E s \in OpIds, q \in Questions(1) : AnswerCall(s, q)
    \/ \E r \in OpResults : AnswerFound(r)
    \/ AnswerNotFound
    \/ \E e \in ClientErrors : AnswerRaise(e)
    \/ Return

Spec == Init /\ [][Next]_vars

(* The scorer alone: answer_paper_question on one well-formed identifier,  *)
(* every question and every abstract.                                      *)
NextAnswer ==
    \/ pc = "idle" /\ \E q \in Questions(MaxWords) : AnswerCall(ModernId, q)
    \/ pc = "fetch" /\ \E r \in AnswerResults : AnswerFound(r)
    \/ Return

SpecAnswer == Init /\ [][NextAnswer]_vars

(* The extractor alone: _extract_arxiv_id on every input of IdInputs.      *)
Extract(s) ==
    /\ pc = "idle"
    /\ op' = "extract"
    /\ id_or_url' = s
    /\ trace' = ExtractTrace(s)
    /\ arxiv_id' = extract_arxiv_id(s)
    /\ pc' = "done"
    /\ UNCHANGED <<question, papers_list, calls, failure, fetched, score,
                   returned, escaped>>

NextExtract ==
    \/ pc = "idle" /\ \E s \in IdInputs : Extract(s)
    \/ Return

SpecExtract == Init /\ [][NextExtract]_vars

-----------------------------------------------------------------------------
(* The canonical identifier shapes, stated on the text itself *)

\* from index i on, s is empty or is "v" and one or more digits
IsVersionSuffix(s, i) ==
    \/ i = Len(s) + 1
    \/ /\ i + 1 <= Len(s)
       /\ s[i] = "v"
       /\ \A j \in (i + 1)..Len(s) : IsDigit(s[j])

\* s as a whole is \d{4}\.\d{4,5}(v\d+)?
IsModernShape(s) ==
    \E n \in {4, 5} :
        /\ Len(s) >= 5 + n
        /\ \A j \in 1..4 : IsDigit(s[j])
        /\ s[5] = "."
        /\ \A j \in 6..(5 + n) : IsDigit(s[j])
        /\ IsVersionSuffix(s, 6 + n)

\* s as a whole is <category>/\d{7}(v\d+)?, the category being [a-zA-Z.-]+
IsLegacyShape(s) ==
    \E k \in 1..Len(s) :
        /\ Len(s) >= k + 8
        /\ \A j \in 1..k : IsCategoryChar(s[j])
        /\ s[k + 1] = "/"
        /\ \A j \in (k + 2)..(k + 8) : IsDigit(s[j])
        /\ IsVersionSuffix(s, k + 9)

\* p is a prefix of s
IsPrefix(p, s) == Len(p) <= Len(s) /\ SubSeq(s, 1, Len(p)) = p

\* p is a suffix of s
IsSuffix(p, s) ==
    Len(p) <= Len(s) /\ SubSeq(s, Len(s) - Len(p) + 1, Len(s)) = p

\* the maximal runs of word characters of s, as index pairs
TokenSpans(s) ==
    { sp \in (1..Len(s)) \X (1..Len(s)) :
        /\ sp[1] <= sp[2]
        /\ \A k \in sp[1]..sp[2] : IsWordChar(s[k])
        /\ (sp[1] = 1 \/ ~IsWordChar(s[sp[1] - 1]))
        /\ (sp[2] = Len(s) \/ ~IsWordChar(s[sp[2] + 1])) }

\* T: the tokens of the lower-cased question that are not stop words
KeptSpans(q) ==
    { sp \in TokenSpans(Lower(q)) :
        SubSeq(Lower(q), sp[1], sp[2]) \notin STOP_WORDS }

\* the tokens of T that occur in the lower-cased abstract
MatchedSpans(q, a) ==
    { sp \in KeptSpans(q) :
        Contains(SubSeq(Lower(q), sp[1], sp[2]), Lower(a)) }

-----------------------------------------------------------------------------
(* Claims *)

\* C1: for every input that as a whole is \d{4}\.\d{4,5}(v\d+)?,
\* _extract_arxiv_id returns exactly that input, version suffix in full.
C1_ExactModernIdReturned ==
    (pc = "done" /\ op = "extract" /\ IsModernShape(id_or_url))
        => arxiv_id = Some(id_or_url)

\* C2: in summarize_arxiv_paper and answer_paper_question, when the
\* extractor yields no identifier the operation returns the error envelope
\* "Invalid arXiv ID or URL format." and the client is never contacted.
C2_NoIdentifierNoClientCall ==
    (pc = "done" /\ op \in {"summarize", "answer"} /\ arxiv_id = None)
        => /\ returned = <<[status |-> "error", message |-> InvalidIdMsg]>>
           /\ calls = 0
           /\ fetched = <<>>
           /\ failure = None

C2_Witness ==
    /\ pc = "done" /\ op = "summarize"
    /\ arxiv_id = None
    /\ id_or_url # <<>>

\* C3: every invocation of the three operations ends by returning exactly
\* one envelope whose status is success or error, whatever the client does
\* (results, none, or an exception at any point of the iteration); no
\* exception leaves the operation.
C3_ExactlyOneEnvelope ==
    /\ escaped = <<>>
    /\ pc \in {"idle", "search_iter", "fetch", "done"}
    /\ pc # "done" => returned = <<>>
    /\ pc = "done" =>
           /\ Len(returned) = 1
           /\ returned[1].status \in {"success", "error"}

C3_Witness ==
    /\ pc = "done" /\ op = "search"
    /\ failure # None
    /\ fetched # <<>>
    /\ Len(returned) = 1

\* the message M the client's exception e was raised with
MessageOf(e) == IF e.args = <<>> THEN <<>> ELSE e.args[1]

\* C4, as claimed: when the client fails with message M, each of the three
\* operations returns an error envelope whose message is exactly M, with
\* nothing added before or after it.
C4_FailureMessageVerbatim ==
    (pc = "done" /\ failure # None)
        => returned =
               <<[status |-> "error", message |-> MessageOf(failure[1])]>>

\* C4, amended: when the client fails with message M, search_arxiv_papers
\* and summarize_arxiv_paper return an error envelope whose message is
\* exactly M, and answer_paper_question one whose message is
\* "An error occurred: " followed by M.
C4_FailureMessage ==
    (pc = "done" /\ failure # None)
        => LET M == MessageOf(failure[1])
           IN  returned =
                   <<[status |-> "error",
                      message |-> IF op = "answer"
                                  THEN <<"An error occurred: ">> \o M
                                  ELSE M]>>

C4_Witness ==
    /\ pc = "done" /\ op = "answer"
    /\ failure # None
    /\ failure[1].args # <<>>
    /\ returned # <<>>
    /\ returned[1].message # failure[1].args[1]

\* C5: once a paper is fetched, with T the lower-cased question tokens that
\* are neither empty nor stop words and m the number of them that occur in
\* the lower-cased abstract, the classification is not_enough_keywords iff
\* T is empty, found_in_abstract iff T is not empty and 2*m > |T|, and
\* not_found_in_abstract otherwise.
C5_Classification ==
    (pc = "done" /\ op = "answer" /\ fetched # <<>>)
        => LET T == Cardinality(KeptSpans(question))
               m == Cardinality(MatchedSpans(question, fetched[1].summary))
           IN  /\ Len(returned) = 1
               /\ returned[1].status = "success"
               /\ returned[1].answer_type =
                      IF T = 0 THEN "not_enough_keywords"
                      ELSE IF 2 * m > T THEN "found_in_abstract"
                      ELSE "not_found_in_abstract"

\* m = 1 of |T| = 2: exactly half is not enough
C5_Witness ==
    /\ pc = "done" /\ op = "answer"
    /\ score # None
    /\ Len(score[1].question_words) = 2
    /\ score[1].found_keywords = 1
    /\ returned[1].answer_type = "not_found_in_abstract"

\* C6: what _extract_arxiv_id returns is None or a non-empty text that as a
\* whole has one of the two canonical shapes.
C6_ExtractedIdIsCanonical ==
    trace.path # "unset"
        => \/ arxiv_id = None
           \/ /\ arxiv_id[1] # <<>>
              /\ IsModernShape(arxiv_id[1]) \/ IsLegacyShape(arxiv_id[1])

\* an identifier taken out of a longer text
C6_Witness ==
    /\ trace.path = "core"
    /\ arxiv_id # None
    /\ Len(arxiv_id[1]) < Len(id_or_url)
    /\ ~IsCategoryChar(id_or_url[1]) /\ ~IsDigit(id_or_url[1])

\* C7: a search the client completes without failing returns a success
\* envelope: with no result, an empty papers array and a message; with
\* results, one record per yielded result, in the client's order.
C7_SearchSuccess ==
    (pc = "done" /\ op = "search" /\ failure = None)
        => /\ Len(returned) = 1
           /\ returned[1].status = "success"
           /\ Len(returned[1].papers) = Len(fetched)
           /\ \A i \in DOMAIN fetched :
                  /\ returned[1].papers[i].title = fetched[i].title
                  /\ returned[1].papers[i].summary = fetched[i].summary
                  /\ IsSuffix(<<"/">> \o returned[1].papers[i].arxiv_id,
                              fetched[i].entry_id)
                  /\ "/" \notin Range(returned[1].papers[i].arxiv_id)
           /\ fetched = <<>> =>
                  /\ "message" \in DOMAIN returned[1]
                  /\ returned[1].message # <<>>

C7_Witness ==
    /\ pc = "done" /\ op = "search"
    /\ failure = None
    /\ Len(fetched) = 2
    /\ fetched[1] # fetched[2]
    /\ Len(returned) = 1

\* C8: no operation retries: the client is asked at most once in an
\* invocation, and after a failure of the client the operation asks nothing
\* more and reports the failure once, in the one envelope it returns.
C8_NoRetry ==
    /\ calls <= 1
    /\ failure # None =>
           /\ pc = "done"
           /\ Len(returned) = 1
           /\ returned[1].status = "error"

C8_Witness ==
    /\ pc = "done" /\ op = "summarize"
    /\ failure # None
    /\ calls = 1
    /\ Len(returned) = 1

\* C9: answer_paper_question extracts, then fetches, then scores: it
\* returns success only if an identifier was extracted and the client
\* returned a paper, with one of the three classifications and the paper's
\* abstract and title unchanged; when the client has no paper the result is
\* an error whose message contains the extracted identifier.
C9_AnswerStages ==
    op = "answer" =>
        /\ pc = "fetch" =>
               arxiv_id # None /\ fetched = <<>> /\ score = None
        /\ score # None => Len(fetched) = 1
        /\ (pc = "done" /\ returned # <<>> /\ returned[1].status = "success")
               => /\ arxiv_id # None
                  /\ Len(fetched) = 1
                  /\ score # None
                  /\ returned[1].answer_type \in
                         {"not_enough_keywords", "found_in_abstract",
                          "not_found_in_abstract"}
                  /\ returned[1].abstract = fetched[1].summary
                  /\ returned[1].title = fetched[1].title
        /\ (pc = "done" /\ arxiv_id # None /\ fetched = <<>>
                /\ failure = None)
               => /\ Len(returned) = 1
                  /\ returned[1].status = "error"
                  /\ Contains(arxiv_id[1], returned[1].message)

C9_Witness ==
    /\ pc = "done" /\ op = "answer"
    /\ arxiv_id # None
    /\ fetched = <<>>
    /\ failure = None
    /\ question # <<>>
    /\ returned # <<>>

\* C10: whenever the broad pattern matches, the strict pattern matches the
\* matched text from its first character on, so the fallback return is not
\* taken and what is returned is a prefix of the broad match.
C10_StrictMatchAtStart ==
    trace.path \notin {"unset", "none"}
        => /\ trace.path = "core"
           /\ trace.core_start = 1
           /\ arxiv_id # None
           /\ IsPrefix(arxiv_id[1], trace.broad)

\* the strict match is shorter than the broad one
C10_Witness ==
    /\ trace.path = "core"
    /\ arxiv_id # None
    /\ arxiv_id[1] # trace.broad
    /\ IsLegacyShape(trace.broad)

=============================================================================
